---- MODULE Spec2Model ----
(***************************************************************************)
(* Model of src/src/clocks.rs (yb_stats, tablet server clocks):            *)
(*   - AllStoredClocks::read_clocks / perform_snapshot: the fan-out of one *)
(*     task per (host, port) over a rayon pool of `parallel` threads, the  *)
(*     mpsc channel and the fan-in into stored_clocks;                     *)
(*   - read_http / parse_clocks / find_table: probe, fetch, table          *)
(*     extraction and header-name driven field mapping;                    *)
(*   - print / print_adhoc / print_adhoc_latency: the three renderers.     *)
(*                                                                         *)
(* Text.  A Rust String is modelled as a sequence of tokens.  A token is   *)
(* one of the markup characters "<", ">", "/", the whitespace token " ",   *)
(* the entity "&amp;", or a word: a maximal run of other characters that   *)
(* begins with a letter.  "<Missing>" is therefore <<"<","Missing",">">>.  *)
(* Vec indexes are 1-based here; Option<usize> is None (0) or the index.   *)
(***************************************************************************)
EXTENDS Integers, Sequences, FiniteSets, TLC

VARIABLES
    \* ---- perform_snapshot / read_clocks
    hosts,            \* hosts: &Vec<&str>
    ports,            \* ports: &Vec<&str>
    parallel,         \* parallel: usize
    snapshot_number,  \* snapshot_number: i32
    node,             \* the cluster: what each address answers in this pass
    pc,               \* position of the coordinator (the caller's thread + scope body)
    tasks,            \* the spawned closures, in spawn order
    senders,          \* live Sender handles of the channel (tx and its clones)
    chan,             \* messages sent and not yet received
    stored_clocks,    \* allstoredclocks.stored_clocks of read_clocks
    now,              \* the last reading of the wall clock (Local::now())
    fetched,          \* tasks for which http_get was invoked
    saved,            \* the invocations of save_snapshot
    result,           \* what perform_snapshot returned
    \* ---- parse_clocks on its own
    http_data,        \* the response body handed to parse_clocks
    clocks,           \* the Vec<Clocks> it returned
    ppc,              \* "input" | "parsed"
    \* ---- the renderers
    entry,            \* "print" | "print_adhoc" | "print_adhoc_latency"
    details_enable,   \* details_enable: &bool
    locator,          \* what the leader locator will answer
    self_clocks,      \* self.stored_clocks
    leader_hostname,  \* the local leader_hostname
    row,              \* index of the next row of the for loop
    out,              \* the lines printed to stdout
    rpc,              \* "start" | "loop" | "done"
    ret               \* the renderer's return value

passVars  == <<hosts, ports, parallel, snapshot_number, node, pc, tasks, senders,
               chan, stored_clocks, now, fetched, saved, result>>
parseVars == <<http_data, clocks, ppc>>
printVars == <<entry, details_enable, locator, self_clocks, leader_hostname, row,
               out, rpc, ret>>
vars      == <<passVars, parseVars, printVars>>

----------------------------------------------------------------------------
\* Bounds of the model.
MaxTasks    == 2
MaxParallel == 2
MaxTime     == 1
MaxCols     == 3
MaxRows     == 2
MaxRecords  == 3

\* Option::None of an Option<usize> (indexes are 1-based).
None == 0

\* All sequences over S of length at most n.
SeqUpTo(S, n) == UNION {[1..k -> S] : k \in 0..n}

\* The sequence s with x inserted before position i.
InsertAt(s, i, x) == [j \in 1..(Len(s) + 1) |->
                        IF j < i THEN s[j] ELSE IF j = i THEN x ELSE s[j - 1]]

----------------------------------------------------------------------------
\* Text.

\* "<Missing>".to_string()
Missing == <<"<", "Missing", ">">>

IsWord(tok) == tok \notin {"<", ">", "/", " ", "&amp;"}

\* str::trim: strip leading and trailing whitespace.
RECURSIVE TrimStart(_)
TrimStart(s) == IF s # <<>> /\ Head(s) = " " THEN TrimStart(Tail(s)) ELSE s

RECURSIVE TrimEnd(_)
TrimEnd(s) == IF s # <<>> /\ s[Len(s)] = " " THEN TrimEnd(SubSeq(s, 1, Len(s) - 1)) ELSE s

trim(s) == TrimEnd(TrimStart(s))

\* The rest of s after the first ">" (nothing when the tag is never closed).
RECURSIVE AfterTag(_)
AfterTag(s) == IF s = <<>> THEN <<>>
               ELSE IF Head(s) = ">" THEN Tail(s)
               ELSE AfterTag(Tail(s))

\* Soup::new(s).text(): s is parsed as HTML and the text nodes are concatenated.
\* "<" followed by a letter (or "/") opens a tag, which is no text; an entity is decoded.
RECURSIVE SoupText(_)
SoupText(s) ==
    IF s = <<>> THEN <<>>
    ELSE IF Head(s) = "<" /\ Len(s) >= 2 /\ (IsWord(s[2]) \/ s[2] = "/")
         THEN SoupText(AfterTag(Tail(s)))
    ELSE IF Head(s) = "&amp;" THEN <<"&">> \o SoupText(Tail(s))
    ELSE <<Head(s)>> \o SoupText(Tail(s))

\* s.split_whitespace().next().unwrap_or_default()
RECURSIVE UntilSpace(_)
UntilSpace(s) == IF s = <<>> \/ Head(s) = " " THEN <<>>
                 ELSE <<Head(s)>> \o UntilSpace(Tail(s))

FirstToken(s) == UntilSpace(TrimStart(s))

----------------------------------------------------------------------------
\* The expected column names (clocks.rs:136-144), as inner_html gives them.
H_Server              == <<"Server">>
H_TimeSinceHeartbeat  == <<"Time", " ", "since", " ", "<", "br", ">", "heartbeat">>
H_StatusUptime        == <<"Status", " ", "&amp;", " ", "Uptime">>
H_PhysicalTimeUtc     == <<"Physical", " ", "Time", " ", "(UTC)">>
H_HybridTimeUtc       == <<"Hybrid", " ", "Time", " ", "(UTC)">>
H_HeartbeatRtt        == <<"Heartbeat", " ", "RTT">>
H_Cloud               == <<"Cloud">>
H_Region              == <<"Region">>
H_Zone                == <<"Zone">>

\* struct Clocks: the field names, in declaration order, and the column each is read from.
Fields == <<"server", "time_since_heartbeat", "status_uptime", "physical_time_utc",
            "hybrid_time_utc", "heartbeat_rtt", "cloud", "region", "zone">>

ExpectedName == [server               |-> H_Server,
                 time_since_heartbeat |-> H_TimeSinceHeartbeat,
                 status_uptime        |-> H_StatusUptime,
                 physical_time_utc    |-> H_PhysicalTimeUtc,
                 hybrid_time_utc      |-> H_HybridTimeUtc,
                 heartbeat_rtt        |-> H_HeartbeatRtt,
                 cloud                |-> H_Cloud,
                 region               |-> H_Region,
                 zone                 |-> H_Zone]

FieldSet == {Fields[i] : i \in 1..Len(Fields)}
ExpectedNames == {ExpectedName[f] : f \in FieldSet}

----------------------------------------------------------------------------
\* find_table.  The parsed document is a sequence of top-level elements; a table
\* element holds its tr elements, a tr its th/td cells with their inner_html.

\* get_cells: row.select(selector).map(|cell| cell.inner_html().trim().to_string())
get_cells(tr, selector) ==
    LET picked == SelectSeq(tr, LAMBDA cell : cell.tag = selector)
    IN  [i \in 1..Len(picked) |-> trim(picked[i].inner_html)]

\* The Option<(Vec<String>, Vec<Vec<String>>)> find_table returns: None, or Some of
\* the (headers, rows) of the first table: the th cells of its first tr and the td
\* cells of every other tr.
NoTable == [found |-> FALSE, headers |-> <<>>, rows |-> <<>>]

find_table(html) ==
    LET tables == SelectSeq(html, LAMBDA el : el.tag = "table")
    IN  IF tables = <<>> THEN NoTable
        ELSE LET trs == tables[1].trs
             IN  IF trs = <<>> THEN NoTable
                 ELSE [found   |-> TRUE,
                       headers |-> get_cells(trs[1], "th"),
                       rows    |-> [i \in 1..(Len(trs) - 1) |-> get_cells(trs[i + 1], "td")]]

----------------------------------------------------------------------------
\* parse_clocks.

\* A column resolution that ignores the header text: the field's place in the
\* declared order.
try_find_header_by_place(headers, target) ==
    LET places == {i \in 1..Len(Fields) : ExpectedName[Fields[i]] = target}
    IN  IF places = {} THEN None
        ELSE LET i == CHOOSE i \in places : TRUE
             IN  IF i <= Len(headers) THEN i ELSE None

\* headers.iter().position(|h| h == target)
try_find_header(headers, target) ==
    LET hits == {i \in 1..Len(headers) : headers[i] = target}
    IN  IF hits = {} THEN None
        ELSE CHOOSE i \in hits : \A j \in hits : i <= j

\* take_or_missing: the value taken and the row it leaves behind (mem::take
\* leaves an empty String in the cell).
take_or_missing(cells, pos) ==
    IF pos # None /\ pos <= Len(cells)
    THEN [value |-> cells[pos], cells |-> [cells EXCEPT ![pos] = <<>>]]
    ELSE [value |-> Missing, cells |-> cells]

\* The body of the for loop over rows: one Clocks per row, the nine fields taken
\* from the row in the order of the struct literal, the server field first.
map_row(headers, cells) ==
    LET pos(f) == try_find_header(headers, ExpectedName[f])
        t1 == take_or_missing(cells, pos("server"))
        t2 == take_or_missing(t1.cells, pos("time_since_heartbeat"))
        t3 == take_or_missing(t2.cells, pos("status_uptime"))
        t4 == take_or_missing(t3.cells, pos("physical_time_utc"))
        t5 == take_or_missing(t4.cells, pos("hybrid_time_utc"))
        t6 == take_or_missing(t5.cells, pos("heartbeat_rtt"))
        t7 == take_or_missing(t6.cells, pos("cloud"))
        t8 == take_or_missing(t7.cells, pos("region"))
        t9 == take_or_missing(t8.cells, pos("zone"))
    IN  [server               |-> SoupText(t1.value),
         time_since_heartbeat |-> t2.value,
         status_uptime        |-> t3.value,
         physical_time_utc    |-> t4.value,
         hybrid_time_utc      |-> t5.value,
         heartbeat_rtt        |-> t6.value,
         cloud                |-> t7.value,
         region               |-> t8.value,
         zone                 |-> t9.value]

\* The mapping of an extracted (headers, rows) grid.
map_table(headers, rows) == [i \in 1..Len(rows) |-> map_row(headers, rows[i])]

parse_clocks(html) ==
    LET table == find_table(html)
    IN  IF ~table.found THEN <<>> ELSE map_table(table.headers, table.rows)

----------------------------------------------------------------------------
\* Documents.

\* An element that is no table, a table, and the th / td cells of a tr.
Paragraph == [tag |-> "p", trs |-> <<>>]
Table(trs) == [tag |-> "table", trs |-> trs]
Th(cells) == [i \in 1..Len(cells) |-> [tag |-> "th", inner_html |-> cells[i]]]
Td(cells) == [i \in 1..Len(cells) |-> [tag |-> "td", inner_html |-> cells[i]]]

\* The document holding one table with the given header cells and rows.
GridDoc(headers, rows) ==
    <<Table(<<Th(headers)>> \o [i \in 1..Len(rows) |-> Td(rows[i])])>>

\* Cell contents: the word of row r, column c, written plain, surrounded by
\* whitespace, or wrapped in a link with a second word.
Word == <<<<"a1", "a2", "a3", "a4", "a5", "a6">>,
          <<"b1", "b2", "b3", "b4", "b5", "b6">>,
          <<"c1", "c2", "c3", "c4", "c5", "c6">>,
          <<"d1", "d2", "d3", "d4", "d5", "d6">>>>

Styles == {"plain", "padded", "link"}

Cell(style, r, c) ==
    CASE style = "plain"  -> <<Word[r][c]>>
      [] style = "padded" -> <<" ", Word[r][c], " ">>
      [] style = "link"   -> <<"<", "a", ">", Word[r][c], " ", "up", "<", "/", "a", ">">>

H_Extra == <<"Extra">>
HeaderPool == {H_Server, H_TimeSinceHeartbeat, H_Zone, H_Extra}

\* A table whose i-th data row has lens[i] cells.
TableDoc(headers, lens, style) ==
    GridDoc(headers, [r \in 1..Len(lens) |-> [c \in 1..lens[r] |-> Cell(style, r, c)]])

\* The response bodies parse_clocks is given: the empty body, a body without a
\* table, a table without rows, a table that follows a paragraph and precedes
\* another table, and every table within the bounds.
ParseInputs ==
    {<<>>, <<Paragraph>>, <<Table(<<>>)>>,
     <<Paragraph>> \o TableDoc(<<H_Zone, H_Server>>, <<2>>, "plain")
                   \o TableDoc(<<H_Server>>, <<1, 1>>, "plain")}
    \cup {TableDoc(h, lens, style) :
            h \in SeqUpTo(HeaderPool, MaxCols),
            lens \in SeqUpTo(0..(MaxCols + 1), MaxRows),
            style \in Styles}

----------------------------------------------------------------------------
\* The variables of the parts a specification does not run.
PassIdle ==
    /\ hosts = <<>> /\ ports = <<>> /\ parallel = 1 /\ snapshot_number = 0
    /\ node = <<>> /\ pc = "idle" /\ tasks = <<>> /\ senders = 0 /\ chan = <<>>
    /\ stored_clocks = <<>> /\ now = 0 /\ fetched = {} /\ saved = <<>>
    /\ result = "none"

ParseIdle == http_data = <<>> /\ clocks = <<>> /\ ppc = "idle"

PrintIdle ==
    /\ entry = "none" /\ details_enable = FALSE /\ locator = <<>>
    /\ self_clocks = <<>> /\ leader_hostname = <<>> /\ row = 0 /\ out = <<>>
    /\ rpc = "idle" /\ ret = "none"

----------------------------------------------------------------------------
\* parse_clocks applied to one response body.
InitParse ==
    /\ http_data \in ParseInputs
    /\ clocks = <<>>
    /\ ppc = "input"
    /\ PassIdle
    /\ PrintIdle

ParseClocks ==
    /\ ppc = "input"
    /\ clocks' = parse_clocks(http_data)
    /\ ppc' = "parsed"
    /\ UNCHANGED <<http_data, passVars, printVars>>

NextParse == ParseClocks

SpecParse == InitParse /\ [][NextParse]_vars

----------------------------------------------------------------------------
\* Claims about parse_clocks.

Parsed == find_table(http_data)

\* The header cells are pairwise distinct.
DistinctHeaders(h) == \A i, j \in 1..Len(h) : h[i] = h[j] => i = j

\* The permutations of 1..n.
Perms(n) == {p \in [1..n -> 1..n] : \A i, j \in 1..n : p[i] = p[j] => i = j}

\* Columns 1..Len(p) of a row moved by p: the cell at i goes to p[i]; cells past
\* Len(p) stay.
Permute(cells, p) ==
    [j \in 1..Len(cells) |->
        IF j <= Len(p) THEN cells[CHOOSE i \in 1..Len(p) : p[i] = j] ELSE cells[j]]

\* C6 (as stated): for each of the nine expected column names that is absent from
\* the table's headers, every record parse_clocks produces has that field equal to
\* "<Missing>", the server field included, and every row is mapped to a record.
C6_AbsentHeaderGivesMissing ==
    (ppc = "parsed" /\ Parsed.found) =>
        /\ Len(clocks) = Len(Parsed.rows)
        /\ \A f \in FieldSet :
             (\A i \in 1..Len(Parsed.headers) : Parsed.headers[i] # ExpectedName[f])
                => \A k \in 1..Len(clocks) : clocks[k][f] = Missing

\* C7: for a table with pairwise distinct headers whose rows have a cell for every
\* header, moving the header cells and the cells of every row by the same
\* permutation leaves the records of parse_clocks unchanged, and so does inserting,
\* at any position, a column whose header is none of the nine expected names.
C7_ResolutionByHeaderText ==
    LET h == Parsed.headers
        rows == Parsed.rows
        n == Len(h)
    IN  (ppc = "parsed" /\ Parsed.found /\ \A r \in 1..Len(rows) : Len(rows[r]) >= n) =>
          /\ DistinctHeaders(h) =>
               \A p \in Perms(n) :
                   parse_clocks(GridDoc(Permute(h, p),
                                        [r \in 1..Len(rows) |-> Permute(rows[r], p)]))
                     = clocks
          /\ \A k \in 1..(n + 1) : \A name \in {H_Extra, <<"Stack">>} :
                 parse_clocks(GridDoc(InsertAt(h, k, name),
                                      [r \in 1..Len(rows) |->
                                          InsertAt(rows[r], k, <<"new">>)]))
                   = clocks

\* A parsed table with distinct headers, the Server column not first, and two full rows.
C7_Witness ==
    /\ ppc = "parsed" /\ Parsed.found
    /\ DistinctHeaders(Parsed.headers)
    /\ Len(Parsed.headers) >= 2
    /\ Parsed.headers[2] = H_Server
    /\ Len(clocks) = 2
    /\ \A r \in 1..2 : Len(Parsed.rows[r]) >= Len(Parsed.headers)
    /\ clocks[1].server = <<"a2">>
    /\ clocks[2].server = <<"b2">>

\* The column an expected field resolves to in the parsed table.
ResolvedPos(f) == try_find_header(Parsed.headers, ExpectedName[f])

\* C11 (as stated): every row of the table, also one with fewer cells than the table
\* has headers, yields exactly one record; in it every field whose resolved column
\* lies past the row's cells is "<Missing>", and every field whose column lies
\* within the row is that cell's text (for the server field: its text without
\* markup); the expected names resolve to pairwise distinct columns.
C11_ShortRowStillMapped ==
    (ppc = "parsed" /\ Parsed.found) =>
        /\ Len(clocks) = Len(Parsed.rows)
        /\ \A k \in 1..Len(Parsed.rows) : \A f \in FieldSet :
             ResolvedPos(f) # None =>
                IF ResolvedPos(f) > Len(Parsed.rows[k])
                THEN clocks[k][f] = Missing
                ELSE clocks[k][f] =
                        IF f = "server" THEN SoupText(Parsed.rows[k][ResolvedPos(f)])
                        ELSE Parsed.rows[k][ResolvedPos(f)]
        /\ \A f, g \in FieldSet :
             (ResolvedPos(f) # None /\ ResolvedPos(f) = ResolvedPos(g)) => f = g

----------------------------------------------------------------------------
\* Records.

\* format!("{}:{}", host, port)
HostPort(host, port) == host \o <<":">> \o port

\* StoredClocks built from a message's label and timestamp and one Clocks (clocks.rs:96-108).
StoredClock(hostname_port, timestamp, clock) ==
    [hostname_port        |-> hostname_port,
     timestamp            |-> timestamp,
     server               |-> clock.server,
     time_since_heartbeat |-> clock.time_since_heartbeat,
     status_uptime        |-> clock.status_uptime,
     physical_time_utc    |-> clock.physical_time_utc,
     hybrid_time_utc      |-> clock.hybrid_time_utc,
     heartbeat_rtt        |-> clock.heartbeat_rtt,
     cloud                |-> clock.cloud,
     region               |-> clock.region,
     zone                 |-> clock.zone]

HostPool == {<<"h1">>, <<"h2">>}
PortPool == {<<"7000">>, <<"9000">>}

----------------------------------------------------------------------------
\* The cluster.  An address is a <<host, port>> pair; in one pass a node is down
\* (the probe fails), answers with a page that holds no table, or answers with the
\* clocks table of two tablet servers.
Addrs == HostPool \X PortPool
NodeKinds == {"down", "no_table", "two_rows"}

\* utility::scan_host_port(host, port)
scan_host_port(kind) == kind # "down"

\* utility::http_get(host, port, "tablet-server-clocks?raw"): the body, empty text
\* when the transport fails.
http_get(kind) ==
    CASE kind = "down"     -> <<>>
      [] kind = "no_table" -> <<Paragraph>>
      [] kind = "two_rows" -> TableDoc(<<H_Server, H_HeartbeatRtt, H_Zone>>, <<3, 3>>, "link")

\* read_http after the probe: parse_clocks of the body at hand, for each body a task
\* can hold (String::new() or what http_get returned).
Bodies == {<<>>} \cup {http_get(kind) : kind \in NodeKinds}
parsed_body == [body \in Bodies |-> parse_clocks(body)]

\* The pairs of positions of hosts x ports, and the address a pair of positions names.
Positions == (1..Len(hosts)) \X (1..Len(ports))
AddrAt(ij) == <<hosts[ij[1]], ports[ij[2]]>>
Requested == {AddrAt(ij) : ij \in Positions}

\* The address of the k-th spawn of the nested for loops (clocks.rs:78-79), k from 0.
SpawnAddr(k) == <<hosts[(k \div Len(ports)) + 1], ports[(k % Len(ports)) + 1]>>

TaskCount == Len(hosts) * Len(ports)

TaskIds == 1..Len(tasks)

\* A task occupies a pool thread from the moment its closure starts until it ends.
Running == {t \in TaskIds : tasks[t].pc \in {"started", "fetch", "parsed"}}

\* rayon::ThreadPoolBuilder::new().num_threads(parallel) (clocks.rs:74): the pool has
\* `parallel` threads; the body of pool.scope runs on one of them until it returns,
\* the spawned closures on threads that are free.
CanStartAnyNumber == TRUE

CanStart == Cardinality(Running) + (IF pc = "spawn" THEN 1 ELSE 0) < parallel

\* pool.scope returns once every closure spawned in the scope has ended (clocks.rs:77-88).
ScopeReturnsAtOnce == TRUE

ScopeCompleted == \A t \in TaskIds : tasks[t].pc = "done"

\* The Sender handles left when the scope body returns: tx was moved into the
\* closure (clocks.rs:77) and is dropped with it.
SendersKeptAfterBody(n) == n

SendersAfterBody(n) == n - 1

\* read_http (clocks.rs:118-122): the fetch is made only when the probe succeeded.
FetchAlways(reachable) == TRUE

ShouldFetch(reachable) == reachable

\* The `?` on save_snapshot (clocks.rs:58) and the final Ok(()) (clocks.rs:62).
SaveResultIgnored(ok) == "Ok"

SaveResult(ok) == IF ok THEN "Ok" ELSE "Err"

\* The records one received message adds to stored_clocks (clocks.rs:95-109).
RecordsOfFirstOnly(msg) ==
    [i \in 1..(IF msg.clocks = <<>> THEN 0 ELSE 1) |->
        StoredClock(msg.hostname_port, msg.timestamp, msg.clocks[i])]

RecordsOf(msg) ==
    [i \in 1..Len(msg.clocks) |-> StoredClock(msg.hostname_port, msg.timestamp, msg.clocks[i])]

InitPass ==
    /\ hosts \in SeqUpTo(HostPool, MaxTasks)
    /\ ports \in SeqUpTo(PortPool, MaxTasks)
    /\ Len(hosts) * Len(ports) <= MaxTasks
    \* the names are interchangeable: the first host is h1, the first port 7000
    /\ hosts # <<>> => hosts[1] = <<"h1">>
    /\ ports # <<>> => ports[1] = <<"7000">>
    /\ parallel \in 1..MaxParallel
    /\ snapshot_number = 7
    /\ node \in [Addrs -> NodeKinds]
    /\ \A a \in Addrs : a \notin Requested => node[a] = "down"
    /\ pc = "spawn"
    /\ tasks = <<>>
    /\ senders = 1
    /\ chan = <<>>
    /\ stored_clocks = <<>>
    /\ now = 0
    /\ fetched = {}
    /\ saved = <<>>
    /\ result = "none"
    /\ ParseIdle
    /\ PrintIdle

unchangedInputs == <<hosts, ports, parallel, snapshot_number, node, parseVars, printVars>>

\* One iteration of the nested for loops in the scope body: tx.clone() and s.spawn
\* (clocks.rs:78-86).
Spawn ==
    /\ pc = "spawn"
    /\ Len(tasks) < TaskCount
    /\ LET a == SpawnAddr(Len(tasks))
       IN  tasks' = Append(tasks, [host |-> a[1], port |-> a[2], pc |-> "queued",
                                   timestamp |-> 0, clocks |-> <<>>, sent |-> 0])
    /\ senders' = senders + 1
    /\ UNCHANGED <<unchangedInputs, pc, chan, stored_clocks, now, fetched, saved, result>>

\* The scope body returns (clocks.rs:88); its thread goes on to run spawned closures.
ScopeBodyEnd ==
    /\ pc = "spawn"
    /\ Len(tasks) = TaskCount
    /\ senders' = SendersAfterBody(senders)
    /\ pc' = "join"
    /\ UNCHANGED <<unchangedInputs, tasks, chan, stored_clocks, now, fetched, saved, result>>

\* A closure that starts without reading the clock: it keeps the timestamp it was
\* enqueued with.
TaskStartUnstamped(t) ==
    /\ tasks[t].pc = "queued"
    /\ CanStart
    /\ \E reading \in now..MaxTime :
         /\ now' = reading
         /\ tasks' = [tasks EXCEPT ![t].pc = "started"]
    /\ UNCHANGED <<unchangedInputs, pc, senders, chan, stored_clocks, fetched, saved,
                   result>>

\* A free pool thread starts a spawned closure: Local::now() (clocks.rs:82).  The
\* clock is read nowhere else; a reading is the last reading or later.
TaskStart(t) ==
    /\ tasks[t].pc = "queued"
    /\ CanStart
    /\ \E reading \in now..MaxTime :
         /\ now' = reading
         /\ tasks' = [tasks EXCEPT ![t].pc = "started", ![t].timestamp = reading]
    /\ UNCHANGED <<unchangedInputs, pc, senders, chan, stored_clocks, fetched, saved,
                   result>>

\* read_http: scan_host_port returns (clocks.rs:118); when the fetch is skipped,
\* parse_clocks(String::new()) is the task's record set (clocks.rs:121-123).
TaskProbe(t) ==
    /\ tasks[t].pc = "started"
    /\ LET reachable == scan_host_port(node[<<tasks[t].host, tasks[t].port>>])
       IN  IF ShouldFetch(reachable)
           THEN tasks' = [tasks EXCEPT ![t].pc = "fetch"]
           ELSE tasks' = [tasks EXCEPT ![t].pc = "parsed", ![t].clocks = parsed_body[<<>>]]
    /\ UNCHANGED <<unchangedInputs, pc, senders, chan, stored_clocks, now, fetched, saved,
                   result>>

\* read_http: http_get returns and its body is parsed (clocks.rs:119, 123).
TaskFetch(t) ==
    /\ tasks[t].pc = "fetch"
    /\ fetched' = fetched \cup {t}
    /\ tasks' = [tasks EXCEPT
                   ![t].pc = "parsed",
                   ![t].clocks = parsed_body[http_get(node[<<tasks[t].host, tasks[t].port>>])]]
    /\ UNCHANGED <<unchangedInputs, pc, senders, chan, stored_clocks, now, saved, result>>

\* tx.send of the task's result; the closure ends, its tx clone is dropped and its
\* thread is free again (clocks.rs:84-85).  The channel is unbounded: send never blocks.
TaskSend(t) ==
    /\ tasks[t].pc = "parsed"
    /\ chan' = Append(chan, [hostname_port |-> HostPort(tasks[t].host, tasks[t].port),
                             timestamp     |-> tasks[t].timestamp,
                             clocks        |-> tasks[t].clocks])
    /\ senders' = senders - 1
    /\ tasks' = [tasks EXCEPT ![t].pc = "done", ![t].sent = @ + 1]
    /\ UNCHANGED <<unchangedInputs, pc, stored_clocks, now, fetched, saved, result>>

\* pool.scope returns to read_clocks (clocks.rs:88-92).
ScopeJoin ==
    /\ pc = "join"
    /\ ScopeCompleted
    /\ pc' = "recv"
    /\ UNCHANGED <<unchangedInputs, tasks, senders, chan, stored_clocks, now, fetched,
                   saved, result>>

\* One iteration of `for ... in rx` (clocks.rs:94-110).
Recv ==
    /\ pc = "recv"
    /\ chan # <<>>
    /\ stored_clocks' = stored_clocks \o RecordsOf(Head(chan))
    /\ chan' = Tail(chan)
    /\ UNCHANGED <<unchangedInputs, pc, tasks, senders, now, fetched, saved, result>>

\* The iteration over rx ends: the channel is empty and every Sender is dropped;
\* read_clocks returns Ok(allstoredclocks) (clocks.rs:111).
RecvEnd ==
    /\ pc = "recv"
    /\ chan = <<>>
    /\ senders = 0
    /\ pc' = "read_done"
    /\ UNCHANGED <<unchangedInputs, tasks, senders, chan, stored_clocks, now, fetched,
                   saved, result>>

\* perform_snapshot: save_snapshot(snapshot_number, "clocks", stored_clocks), which
\* succeeds or fails (clocks.rs:58).
SaveSnapshot ==
    /\ pc = "read_done"
    /\ \E ok \in BOOLEAN :
         saved' = Append(saved, [snapshot_number |-> snapshot_number,
                                 name            |-> "clocks",
                                 records         |-> stored_clocks,
                                 ok              |-> ok])
    /\ pc' = "saved"
    /\ UNCHANGED <<unchangedInputs, tasks, senders, chan, stored_clocks, now, fetched,
                   result>>

\* perform_snapshot returns: the store's error, or Ok(()) (clocks.rs:58-62).
PerformReturn ==
    /\ pc = "saved"
    /\ result' = SaveResult(saved[Len(saved)].ok)
    /\ pc' = "returned"
    /\ UNCHANGED <<unchangedInputs, tasks, senders, chan, stored_clocks, now, fetched,
                   saved>>

Next ==
    \/ Spawn
    \/ ScopeBodyEnd
    \/ \E t \in TaskIds : TaskStart(t)
    \/ \E t \in TaskIds : TaskProbe(t)
    \/ \E t \in TaskIds : TaskFetch(t)
    \/ \E t \in TaskIds : TaskSend(t)
    \/ ScopeJoin
    \/ Recv
    \/ RecvEnd
    \/ SaveSnapshot
    \/ PerformReturn

Init == InitPass

Spec == Init /\ [][Next]_vars

\* The pool's threads keep running what is runnable, and every probe and fetch returns.
FairSpec == Spec /\ WF_vars(Next)

----------------------------------------------------------------------------
\* Claims about read_clocks and perform_snapshot.

\* The tasks that have taken their timestamp and not yet sent their result.
InFlight == {t \in TaskIds : tasks[t].pc \notin {"queued", "done"}}

\* read_clocks has left pool.scope / has returned.
Consuming == pc \in {"recv", "read_done", "saved", "returned"}
ReadClocksReturned == pc \in {"read_done", "saved", "returned"}

\* The data rows of the table extracted from what the node at address a answers
\* (none when the node is down).
RowCount(a) == IF scan_host_port(node[a]) THEN Len(find_table(http_get(node[a])).rows)
               ELSE 0

\* The sum of the values of a function with a finite domain.
RECURSIVE Sum(_)
Sum(f) == IF DOMAIN f = {} THEN 0
          ELSE LET x == CHOOSE x \in DOMAIN f : TRUE
               IN  f[x] + Sum([y \in DOMAIN f \ {x} |-> f[y]])

\* The records of the Collection labelled L, and their number.
Labelled(L) == SelectSeq(stored_clocks, LAMBDA r : r.hostname_port = L)
LabelOf(a) == HostPort(a[1], a[2])

\* The NodeRecord inside a SnapshotRecord.
ClockIn(r) == [f \in FieldSet |-> r[f]]

\* s repeated n times.
RECURSIVE Repeat(_, _)
Repeat(s, n) == IF n = 0 THEN <<>> ELSE s \o Repeat(s, n - 1)

\* The positions of hosts x ports that name address a.
PositionsOf(a) == {ij \in Positions : AddrAt(ij) = a}

\* C1: at every moment of read_clocks the tasks that have started and not yet sent
\* their result number at most `parallel`.
C1_AtMostParallelInFlight == Cardinality(InFlight) <= parallel

\* The pool's only thread runs one task after the scope body returned while the
\* other task waits for it.
C1_Witness ==
    /\ parallel = 1 /\ pc = "join"
    /\ Cardinality(InFlight) = 1
    /\ \E t \in TaskIds : tasks[t].pc = "queued"

\* C2: read_clocks takes its first result from the channel, and returns, only after
\* every one of the |hosts| x |ports| tasks was spawned, has finished and has sent
\* its single result; what it returns holds the records of every task.
C2_JoinBarrier ==
    /\ (Consuming \/ stored_clocks # <<>>) =>
          /\ Len(tasks) = TaskCount
          /\ \A t \in TaskIds : tasks[t].pc = "done" /\ tasks[t].sent = 1
    /\ ReadClocksReturned =>
          /\ chan = <<>>
          /\ Len(stored_clocks) = Sum([t \in TaskIds |-> Len(tasks[t].clocks)])

\* read_clocks has returned the four records of two tasks.
C2_Witness ==
    /\ pc = "read_done"
    /\ Len(tasks) = 2
    /\ Len(stored_clocks) = 4

\* C3: when the pool keeps running and every probe and fetch returns, read_clocks
\* returns, having spawned |hosts| x |ports| tasks that each sent one result, with
\* the channel drained and every Sender dropped; a task that has started never waits
\* for another task: its next step is always possible.
C3_Returned ==
    /\ pc = "read_done"
    /\ Len(tasks) = TaskCount
    /\ \A t \in TaskIds : tasks[t].pc = "done" /\ tasks[t].sent = 1
    /\ chan = <<>>
    /\ senders = 0

C3_NoTaskWaits ==
    \A t \in InFlight : ENABLED (TaskProbe(t) \/ TaskFetch(t) \/ TaskSend(t))

C3_ReadClocksReturns == <>C3_Returned /\ []C3_NoTaskWaits

\* read_clocks has returned from a pass over two addresses of which one is down.
C3_Witness ==
    /\ C3_Returned
    /\ Len(tasks) = 2
    /\ \E t \in TaskIds : ~scan_host_port(node[<<tasks[t].host, tasks[t].port>>])

\* C4 (as stated): when read_clocks has returned, the Collection holds, for each
\* requested (host, port), exactly as many records labelled "host:port" as the table
\* of that node has data rows, no record with another label, and in total the sum of
\* the per-node row counts.
C4_RowCountPerAddress ==
    ReadClocksReturned =>
        /\ \A a \in Requested : Len(Labelled(LabelOf(a))) = RowCount(a)
        /\ \A i \in 1..Len(stored_clocks) :
             \E a \in Requested : stored_clocks[i].hostname_port = LabelOf(a)
        /\ Len(stored_clocks) = Sum([a \in Requested |-> RowCount(a)])

\* C4 (amended): when read_clocks has returned, whatever the interleaving, the
\* Collection holds for each label exactly the sum, over the tasks (one per pair of
\* positions in hosts x ports) whose "host:port" is that label, of the row counts of
\* their nodes' tables; no record with the label of no task; and in total the sum of
\* the row counts over the tasks.
C4_RowCountPerTask ==
    ReadClocksReturned =>
        /\ \A a \in Requested :
             Len(Labelled(LabelOf(a))) =
                Sum([ij \in {p \in Positions : LabelOf(AddrAt(p)) = LabelOf(a)} |->
                        RowCount(AddrAt(ij))])
        /\ \A i \in 1..Len(stored_clocks) :
             \E a \in Requested : stored_clocks[i].hostname_port = LabelOf(a)
        /\ Len(stored_clocks) = Sum([ij \in Positions |-> RowCount(AddrAt(ij))])

\* read_clocks has returned from a pass whose host list names one host twice: the
\* Collection holds the node's two rows twice.
C4_Witness ==
    /\ ReadClocksReturned
    /\ Len(hosts) = 2 /\ hosts[1] = hosts[2] /\ Len(ports) = 1
    /\ RowCount(<<hosts[1], ports[1]>>) = 2
    /\ Len(Labelled(HostPort(hosts[1], ports[1]))) = 4

\* C5: a task whose probe fails never invokes the fetch and ends with an empty
\* record set; when read_clocks has returned every task has finished and sent its
\* result, and the records held for a reachable address are those parsed from that
\* node's own answer (once per task of the address), whatever the other nodes did.
C5_FailureIsolation ==
    /\ \A t \in TaskIds :
         ~scan_host_port(node[<<tasks[t].host, tasks[t].port>>]) =>
            /\ t \notin fetched
            /\ tasks[t].pc # "fetch"
            /\ tasks[t].pc \in {"parsed", "done"} => tasks[t].clocks = <<>>
    /\ ReadClocksReturned =>
         /\ \A t \in TaskIds : tasks[t].pc = "done" /\ tasks[t].sent = 1
         /\ \A a \in Requested :
              LET held == Labelled(LabelOf(a))
              IN  [i \in 1..Len(held) |-> ClockIn(held[i])] =
                     IF scan_host_port(node[a])
                     THEN Repeat(parse_clocks(http_get(node[a])),
                                 Cardinality(PositionsOf(a)))
                     ELSE <<>>

\* A pass over two addresses has returned: one node is down, the other's two rows
\* are the whole Collection.
C5_Witness ==
    /\ pc = "returned"
    /\ Len(tasks) = 2
    /\ \E t, u \in TaskIds :
         /\ node[<<tasks[t].host, tasks[t].port>>] = "down"
         /\ node[<<tasks[u].host, tasks[u].port>>] = "two_rows"
         /\ u \in fetched
    /\ Len(stored_clocks) = 2

\* C10: save_snapshot is invoked at most once, and only after read_clocks returned
\* the complete Collection (every task finished, the channel drained), with that
\* Collection, the snapshot number and the label "clocks"; perform_snapshot returns
\* only after that one invocation, the store's error when it failed and Ok when it
\* succeeded.
C10_StoreOnceAfterRead ==
    /\ Len(saved) <= 1
    /\ saved # <<>> =>
         /\ pc \in {"saved", "returned"}
         /\ Len(tasks) = TaskCount
         /\ \A t \in TaskIds : tasks[t].pc = "done"
         /\ chan = <<>> /\ senders = 0
         /\ saved[1].snapshot_number = snapshot_number
         /\ saved[1].name = "clocks"
         /\ saved[1].records = stored_clocks
         /\ Len(saved[1].records) = Sum([ij \in Positions |-> RowCount(AddrAt(ij))])
    /\ (pc = "returned") = (result # "none")
    /\ pc = "returned" =>
         /\ Len(saved) = 1
         /\ result = (IF saved[1].ok THEN "Ok" ELSE "Err")

\* perform_snapshot has returned the store's error after handing it two records.
C10_Witness ==
    /\ pc = "returned"
    /\ result = "Err"
    /\ Len(saved) = 1
    /\ Len(saved[1].records) = 2

\* The records of the Collection that carry label L and timestamp ts.
Stamped(L, ts) ==
    SelectSeq(stored_clocks, LAMBDA r : r.hostname_port = L /\ r.timestamp = ts)

\* A step in which task t starts executing.
Starts(t) == tasks[t].pc = "queued" /\ tasks'[t].pc # "queued"

\* The timestamp of a task is the clock reading of the step in which it starts, a
\* step that precedes its probe and its fetch; it never changes afterwards, and the
\* clock is read in no other step (not at the spawn, not in the rx loop).
C12_StampedAtStart ==
    /\ \A t \in TaskIds :
         /\ Starts(t) => /\ tasks'[t].pc = "started"
                         /\ tasks'[t].timestamp = now'
                         /\ t \notin fetched'
         /\ tasks[t].pc # "queued" => tasks'[t].timestamp = tasks[t].timestamp
    /\ now' # now => \E t \in TaskIds : Starts(t)

\* Every message is the result of a finished task, with that task's label and
\* timestamp; when read_clocks has returned, the records carrying a label and a
\* timestamp are exactly the rows of the tasks with that label and timestamp.
C12_RecordsCarryTaskStamp ==
    /\ \A i \in 1..Len(chan) :
         \E t \in TaskIds :
            /\ tasks[t].pc = "done"
            /\ chan[i] = [hostname_port |-> HostPort(tasks[t].host, tasks[t].port),
                          timestamp     |-> tasks[t].timestamp,
                          clocks        |-> tasks[t].clocks]
    /\ ReadClocksReturned =>
         /\ \A i \in 1..Len(stored_clocks) :
              \E t \in TaskIds :
                 /\ stored_clocks[i].hostname_port = HostPort(tasks[t].host, tasks[t].port)
                 /\ stored_clocks[i].timestamp = tasks[t].timestamp
         /\ \A a \in Requested : \A ts \in 0..MaxTime :
              Len(Stamped(LabelOf(a), ts)) =
                 Sum([t \in {u \in TaskIds :
                                /\ HostPort(tasks[u].host, tasks[u].port) = LabelOf(a)
                                /\ tasks[u].timestamp = ts} |->
                         Len(tasks[t].clocks)])

\* C12 (as stated, its part about the Collection): when read_clocks has returned,
\* every record carries the label and the timestamp of a task, and records of one
\* address never differ in timestamp.
C12_OneTimestampPerAddress ==
    ReadClocksReturned =>
        /\ \A i \in 1..Len(stored_clocks) :
             \E t \in TaskIds :
                /\ stored_clocks[i].hostname_port = HostPort(tasks[t].host, tasks[t].port)
                /\ stored_clocks[i].timestamp = tasks[t].timestamp
        /\ \A i, j \in 1..Len(stored_clocks) :
             stored_clocks[i].hostname_port = stored_clocks[j].hostname_port
                => stored_clocks[i].timestamp = stored_clocks[j].timestamp

\* Records of an address that one task only fetched agree in timestamp.
C12_OneTimestampPerTask ==
    ReadClocksReturned =>
        \A a \in Requested :
           Cardinality({ij \in Positions : LabelOf(AddrAt(ij)) = LabelOf(a)}) = 1 =>
              \A i, j \in 1..Len(Labelled(LabelOf(a))) :
                 Labelled(LabelOf(a))[i].timestamp = Labelled(LabelOf(a))[j].timestamp

\* C12 (amended): each task captures its timestamp when it starts executing, before
\* its probe and its fetch, and nowhere else is the clock read; every record produced
\* from one task carries that task's timestamp and label, so the records of one task
\* never differ in timestamp, and neither do the records of an address that is
\* requested once.
C12_TimestampAtTaskStart ==
    /\ []C12_RecordsCarryTaskStamp
    /\ []C12_OneTimestampPerTask
    /\ [][C12_StampedAtStart]_vars

\* read_clocks has returned from a pass that named one address twice: its two tasks
\* started at different times and the four records carry two timestamps.
C12_Witness ==
    /\ ReadClocksReturned
    /\ Len(tasks) = 2
    /\ HostPort(tasks[1].host, tasks[1].port) = HostPort(tasks[2].host, tasks[2].port)
    /\ tasks[1].timestamp # tasks[2].timestamp
    /\ Len(stored_clocks) = 4
    /\ \E i, j \in 1..4 : stored_clocks[i].timestamp # stored_clocks[j].timestamp

----------------------------------------------------------------------------
\* The leader locator (crate::isleader).  What it will answer is fixed by the
\* environment: a label, or a failure.
LocatorFailed == [ok |-> FALSE, label |-> <<>>]
LocatorAnswers ==
    {[ok |-> TRUE, label |-> HostPort(h, <<"7000">>)] : h \in HostPool \cup {<<"h3">>}}
    \cup {LocatorFailed}

\* AllStoredIsLeader::return_leader_snapshot(snapshot_number) -> Result<String>
return_leader_snapshot(answer) == answer

\* AllStoredIsLeader::return_leader_http(hosts, ports, parallel).await -> String:
\* a String and no Result; with no leader found it is the empty String.
return_leader_http(answer) == IF answer.ok THEN answer.label ELSE <<>>

----------------------------------------------------------------------------
\* The renderers.  A printed line is the String println! writes.

\* The arguments of a format string joined by single spaces.
RECURSIVE Spaced(_)
Spaced(args) == IF args = <<>> THEN <<>>
                ELSE IF Len(args) = 1 THEN args[1]
                ELSE args[1] \o <<" ">> \o Spaced(Tail(args))

\* "{} {} {} {} {} {} {} {} {}" over the nine fields (clocks.rs:206, 231)
NineFields(r) == Spaced(<<r.server, r.time_since_heartbeat, r.status_uptime,
                          r.physical_time_utc, r.hybrid_time_utc, r.heartbeat_rtt,
                          r.cloud, r.region, r.zone>>)

\* "{} -> {}: {} RTT ({} {} {})" (clocks.rs:256)
LatencyFields(r, leader) ==
    leader \o <<" ", "->", " ">> \o FirstToken(r.server) \o <<":", " ">>
           \o r.heartbeat_rtt \o <<" ", "RTT", " ", "(">>
           \o Spaced(<<r.cloud, r.region, r.zone>>) \o <<")">>

\* One iteration of the for loop of print (clocks.rs:202-212): the lines it prints.
print_row_either(r, leader, details) ==
    (IF r.hostname_port = leader \/ ~details THEN <<NineFields(r)>> ELSE <<>>)
    \o (IF details THEN <<r.hostname_port \o <<":", " ">> \o NineFields(r)>> ELSE <<>>)

print_row(r, leader, details) ==
    (IF r.hostname_port = leader /\ ~details THEN <<NineFields(r)>> ELSE <<>>)
    \o (IF details THEN <<r.hostname_port \o <<":", " ">> \o NineFields(r)>> ELSE <<>>)

\* One iteration of the for loop of print_adhoc (clocks.rs:227-237).
print_adhoc_row(r, leader, details) ==
    (IF r.hostname_port = leader /\ ~details THEN <<NineFields(r)>> ELSE <<>>)
    \o (IF details THEN <<r.hostname_port \o <<" ">> \o NineFields(r)>> ELSE <<>>)

\* One iteration of the for loop of print_adhoc_latency (clocks.rs:252-262).
print_adhoc_latency_row(r, leader, details) ==
    (IF r.hostname_port = leader /\ ~details THEN <<LatencyFields(r, leader)>> ELSE <<>>)
    \o (IF details THEN <<r.hostname_port \o <<" ">> \o LatencyFields(r, leader)>>
        ELSE <<>>)

Entries == {"print", "print_adhoc", "print_adhoc_latency"}

\* The Collections handed to a renderer.
ClockOf(server) ==
    [server               |-> server,
     time_since_heartbeat |-> <<"1.0s">>,
     status_uptime        |-> <<"ALIVE:", " ", "0:01:00">>,
     physical_time_utc    |-> <<"pt">>,
     hybrid_time_utc      |-> <<"ht">>,
     heartbeat_rtt        |-> <<"0.5ms">>,
     cloud                |-> <<"local">>,
     region               |-> <<"local">>,
     zone                 |-> <<"local">>]

RecordPool == {StoredClock(HostPort(h, <<"7000">>), 0, ClockOf(srv)) :
                 h \in HostPool, srv \in {<<"ts1:9100", " ", "uuid">>, <<>>}}

InitPrint ==
    /\ entry \in Entries
    /\ details_enable \in BOOLEAN
    /\ locator \in LocatorAnswers
    /\ self_clocks \in SeqUpTo(RecordPool, MaxRecords)
    /\ leader_hostname = <<>>
    /\ row = 0
    /\ out = <<>>
    /\ rpc = "start"
    /\ ret = "none"
    /\ PassIdle
    /\ ParseIdle

\* print, up to the for loop: return_leader_snapshot(snapshot_number)? (clocks.rs:200)
PrintResolveLeader ==
    /\ rpc = "start" /\ entry = "print"
    /\ LET r == return_leader_snapshot(locator)
       IN  IF r.ok
           THEN /\ leader_hostname' = r.label
                /\ row' = 1
                /\ rpc' = "loop"
                /\ ret' = ret
           ELSE /\ ret' = "Err"
                /\ rpc' = "done"
                /\ UNCHANGED <<leader_hostname, row>>
    /\ UNCHANGED <<entry, details_enable, locator, self_clocks, out, passVars, parseVars>>

\* print_adhoc and print_adhoc_latency, up to the for loop:
\* return_leader_http(hosts, ports, parallel).await (clocks.rs:225, 250)
AdhocResolveLeader ==
    /\ rpc = "start" /\ entry \in {"print_adhoc", "print_adhoc_latency"}
    /\ leader_hostname' = return_leader_http(locator)
    /\ row' = 1
    /\ rpc' = "loop"
    /\ UNCHANGED <<entry, details_enable, locator, self_clocks, out, ret, passVars,
                   parseVars>>

\* One iteration of the for loop over &self.stored_clocks.
RenderRow ==
    /\ rpc = "loop" /\ row <= Len(self_clocks)
    /\ LET r == self_clocks[row]
       IN  out' = out \o
             (CASE entry = "print" -> print_row(r, leader_hostname, details_enable)
                [] entry = "print_adhoc" ->
                     print_adhoc_row(r, leader_hostname, details_enable)
                [] entry = "print_adhoc_latency" ->
                     print_adhoc_latency_row(r, leader_hostname, details_enable))
    /\ row' = row + 1
    /\ UNCHANGED <<entry, details_enable, locator, self_clocks, leader_hostname, rpc, ret,
                   passVars, parseVars>>

\* Ok(()) after the loop.
RenderReturn ==
    /\ rpc = "loop" /\ row > Len(self_clocks)
    /\ ret' = "Ok"
    /\ rpc' = "done"
    /\ UNCHANGED <<entry, details_enable, locator, self_clocks, leader_hostname, row, out,
                   passVars, parseVars>>

NextPrint == PrintResolveLeader \/ AdhocResolveLeader \/ RenderRow \/ RenderReturn

SpecPrint == InitPrint /\ [][NextPrint]_vars

----------------------------------------------------------------------------
\* Claims about the renderers.

\* The indexes of the records a renderer is to print, in Collection order.
RECURSIVE SelectedFrom(_)
SelectedFrom(i) ==
    IF i > Len(self_clocks) THEN <<>>
    ELSE (IF details_enable \/ self_clocks[i].hostname_port = leader_hostname
          THEN <<i>> ELSE <<>>) \o SelectedFrom(i + 1)

IsPrefix(p, s) == Len(p) <= Len(s) /\ SubSeq(s, 1, Len(p)) = p
IsSuffix(p, s) == Len(p) <= Len(s) /\ SubSeq(s, Len(s) - Len(p) + 1, Len(s)) = p

\* The line of a record in summary mode.
SummaryLine(r) == IF entry = "print_adhoc_latency" THEN LatencyFields(r, leader_hostname)
                  ELSE NineFields(r)

\* C8: in each of the three renderers, when it has returned Ok: with the detail flag
\* off, the output is one line for each record whose label equals the leader label,
\* and none for any other record; with the flag on, it is one line for every record,
\* prefixed by that record's label; the lines are in Collection order.  The
\* Collection is never changed.
C8_Selected ==
    (rpc = "done" /\ ret = "Ok") =>
        LET sel == SelectedFrom(1)
        IN  /\ Len(out) = Len(sel)
            /\ \A k \in 1..Len(sel) :
                 LET r == self_clocks[sel[k]]
                 IN  IF details_enable
                     THEN /\ IsPrefix(r.hostname_port, out[k])
                          /\ IsSuffix(SummaryLine(r), out[k])
                          /\ Len(out[k]) > Len(r.hostname_port) + Len(SummaryLine(r))
                     ELSE out[k] = SummaryLine(r)

C8_RenderingSelectsByMode == []C8_Selected /\ [][self_clocks' = self_clocks]_vars

\* print has returned in summary mode after printing the leader's two records and
\* skipping another node's record that lies between them.
C8_Witness ==
    /\ rpc = "done" /\ ret = "Ok" /\ entry = "print" /\ ~details_enable
    /\ Len(self_clocks) = 3
    /\ self_clocks[1].hostname_port = leader_hostname
    /\ self_clocks[2].hostname_port # leader_hostname
    /\ self_clocks[3].hostname_port = leader_hostname
    /\ self_clocks[1] # self_clocks[3]
    /\ Len(out) = 2

\* C9 (as stated): in each rendering entry point, when the leader locator fails the
\* renderer returns an error and prints no record line.
C9_LeaderFailureIsHardError ==
    (rpc = "done" /\ ~locator.ok) => (ret = "Err" /\ out = <<>>)

====
